---- MODULE Spec2Model ----
(***************************************************************************)
(* State-machine model of the B+-tree index of src/src/btree.cpp           *)
(* (BTreeIndex: constructor with its open and build paths, destructor,     *)
(* insertEntry with leaf / non-leaf splits, startScan / scanNext /         *)
(* endScan) on top of a pin-counting buffer manager.  Arrays keep the     *)
(* source's 0-based indexing; slots beyond the occupied prefix keep        *)
(* whatever the code left there.                                           *)
(***************************************************************************)
EXTENDS Integers, Sequences, FiniteSets, TLC

\* The leaf capacity of the build, as the member leafOccupancy holds it
\* (line 49).  btree.h fixes it at compile time; it never changes.
VARIABLE leafOccupancy

\* Node capacities (btree.h).  The leaf capacity is that of the build, one of
\* LeafSizes: the even one of spec scenario 4 and an odd one, for which
\* splitLeafNode has a branch of its own (lines 662-668).  The internal
\* capacity is the one of spec scenario 4.
LeafSizes == {4, 5}
INTARRAYLEAFSIZE == leafOccupancy
INTARRAYNONLEAFSIZE == 3
\* Page::INVALID_NUMBER
INVALID_NUMBER == 0

\* Bounds of the exploration.
MaxInserts == 3
RecursionCap == 2
MaxScanCalls == 3
\* Constructor calls after the first; the handle of the last one is only
\* destroyed.
MaxOpens == 2

\* Keys offered to insertEntry and to the scan bounds.
Keys == {-2, -1, 1, 2}
\* Tuples of the base relation; the index is built over a prefix of it.
SeedRelation == <<-2, -2, 2, 3, 4, 4, 4, 3, 3, 3, -2, -2>>

\* Attribute types offered to the constructor; only INTEGER is indexed.
Datatypes == {"INTEGER", "DOUBLE"}
\* Relations of the catalogue, copies of one another, and the offsets of
\* their two integer attributes (which hold equal values).  The second name
\* is 24 bytes long.
RelationNames == {"rel", "relation_name_of_24_byte"}
AttrByteOffsets == {0, 4}
NameLen(relationName) == IF relationName = "rel" THEN 3 ELSE 24
\* sizeof(IndexMetaInfo::relationName)
RelationNameSize == 20
\* The bytes of attrByteOffset up to its first zero byte, as a C string reads
\* them (a byte that is no printable character is written \xNN), for the
\* offsets of AttrByteOffsets.
OffsetBytes(attrByteOffset) == IF attrByteOffset = 0 THEN "" ELSE "\\x04"
\* The C string found in meta->relationName after strcpy (line 94) and the
\* assignments to the members behind it (lines 95-96): a name that does not
\* fit fills the 20 bytes of the array and runs into attrByteOffset; the
\* assignment of line 95 replaces that tail, and the string goes on through
\* the bytes of attrByteOffset until the first zero byte.
MetaRelationName(relationName, attrByteOffset) ==
  IF NameLen(relationName) < RelationNameSize THEN relationName
  ELSE "relation_name_of_24_" \o OffsetBytes(attrByteOffset)

\* Operator codes; only GT/GTE are low operators and LT/LTE high operators.
Operators == {"LT", "LTE", "GTE", "GT"}

(***************************************************************************)
(* Pages.  A page delivered by allocPage is zero-filled; the code casts it *)
(* to one of the node structs.                                             *)
(***************************************************************************)
LeafNodeInt ==
  [kind |-> "leaf",
   keyArray |-> [i \in 0..(INTARRAYLEAFSIZE - 1) |-> 0],
   ridArray |-> [i \in 0..(INTARRAYLEAFSIZE - 1) |-> 0],
   rightSibPageNo |-> 0, spaceAvail |-> 0, parentId |-> 0]

NonLeafNodeInt ==
  [kind |-> "nonleaf", level |-> 0,
   keyArray |-> [i \in 0..(INTARRAYNONLEAFSIZE - 1) |-> 0],
   pageNoArray |-> [i \in 0..INTARRAYNONLEAFSIZE |-> 0],
   spaceAvail |-> 0, parentId |-> 0]

IndexMetaInfo ==
  [kind |-> "meta", relationName |-> "rel", attrByteOffset |-> 0,
   attrType |-> "INTEGER", rootPageNo |-> 0]

(***************************************************************************)
(* Buffer manager, as seen by the index: m is the record                   *)
(*   [pages, pinCnt, dirty, rootPageNum, insertInRoot, exc, halt]          *)
(* exc names the exception in flight, halt an outcome after which the      *)
(* process state is no longer described (memory smashed, endless recursion)*)
(***************************************************************************)
Stopped(m) == m.exc # "none" \/ m.halt # "no"

ValidPage(m, pid) == pid \in 1..Len(m.pages)

readPage(m, pid) ==
  IF Stopped(m) THEN m
  ELSE IF ~ValidPage(m, pid) THEN [m EXCEPT !.exc = "InvalidPageException"]
  ELSE [m EXCEPT !.pinCnt[pid] = @ + 1]

unPinPage(m, pid, isDirty) ==
  IF Stopped(m) THEN m
  ELSE IF ~ValidPage(m, pid) THEN m
  ELSE IF m.pinCnt[pid] = 0 THEN [m EXCEPT !.exc = "PageNotPinnedException"]
  ELSE [m EXCEPT !.pinCnt[pid] = @ - 1, !.dirty[pid] = @ \/ isDirty]

allocPage(m, node) ==
  IF Stopped(m) THEN m
  ELSE [m EXCEPT !.pages = Append(@, node), !.pinCnt = Append(@, 1),
                 !.dirty = Append(@, FALSE)]

(***************************************************************************)
(* createNewRoot                                                           *)
(***************************************************************************)
\* createNewRoot that forgets the level: what C5_EqualDepth has to notice.
createNewRootLevelZero(m0, key, leftChild, rightChild, aboveLeaf) ==
  IF Stopped(m0) THEN m0
  ELSE unPinPage(
         [readPage(allocPage(m0, [NonLeafNodeInt EXCEPT
                                    !.keyArray[0] = key,
                                    !.pageNoArray[0] = leftChild,
                                    !.pageNoArray[1] = rightChild,
                                    !.spaceAvail = INTARRAYNONLEAFSIZE - 1]), 1)
            EXCEPT !.pages[1].rootPageNo = Len(m0.pages) + 1,
                   !.rootPageNum = Len(m0.pages) + 1,
                   !.insertInRoot = FALSE],
         Len(m0.pages) + 1, TRUE)

createNewRoot(m0, key, leftChild, rightChild, aboveLeaf) ==
  LET rootId == Len(m0.pages) + 1
      rootNode == [NonLeafNodeInt EXCEPT
                     !.level = IF aboveLeaf THEN 1 ELSE 0,
                     !.keyArray[0] = key,
                     !.pageNoArray[0] = leftChild,
                     !.pageNoArray[1] = rightChild,
                     !.spaceAvail = INTARRAYNONLEAFSIZE - 1]
      \* meta->rootPageNo = rootId; rootPageNum = rootId; insertInRoot = false
      SetRoot(m2) == IF Stopped(m2) THEN m2
                     ELSE [m2 EXCEPT !.pages[1].rootPageNo = rootId,
                                     !.rootPageNum = rootId,
                                     !.insertInRoot = FALSE]
  IN IF Stopped(m0) THEN m0
     ELSE unPinPage(SetRoot(readPage(allocPage(m0, rootNode), 1)), rootId, TRUE)

(***************************************************************************)
(* Sorting loops                                                           *)
(***************************************************************************)
SwapLeaf(node, i) ==
  [node EXCEPT !.keyArray[i - 1] = node.keyArray[i],
               !.ridArray[i - 1] = node.ridArray[i],
               !.keyArray[i] = node.keyArray[i - 1],
               !.ridArray[i] = node.ridArray[i - 1]]

\* for (int i = numNode; i > 0; i++): the index moves to the right.  Reading
\* keyArray[INTARRAYLEAFSIZE] leaves the array: oob chooses what the build
\* makes of it ("break": the value read is not smaller, "smash": it is, and
\* the swap writes outside the array).
RECURSIVE LeafBubble(_, _, _)
LeafBubble(node, i, oob) ==
  IF i <= 0 THEN [node |-> node, ub |-> FALSE]
  ELSE IF i >= INTARRAYLEAFSIZE THEN [node |-> node, ub |-> (oob = "smash")]
  ELSE IF node.keyArray[i] < node.keyArray[i - 1]
       THEN LeafBubble(SwapLeaf(node, i), i + 1, oob)
       ELSE [node |-> node, ub |-> FALSE]

\* for (int i = 0; i < size; i++) if (key[size-i] < key[size-i-1]) swap
RECURSIVE NonLeafBubble(_, _, _)
NonLeafBubble(keyArray, size, i) ==
  IF i >= size THEN keyArray
  ELSE IF keyArray[size - i] < keyArray[size - i - 1]
       THEN NonLeafBubble([keyArray EXCEPT ![size - i - 1] = keyArray[size - i],
                                           ![size - i] = keyArray[size - i - 1]],
                          size, i + 1)
       ELSE NonLeafBubble(keyArray, size, i + 1)

(***************************************************************************)
(* Insertion into nodes and splits (mutually recursive, as in the source). *)
(* Each function is a chain of steps; a step takes the machine state left  *)
(* by the calls before it.                                                 *)
(***************************************************************************)
RECURSIVE insertIntoNonLeafNode(_, _, _, _)
RECURSIVE splitNonLeafNode(_, _, _, _)
RECURSIVE insertIntoLeafNode(_, _, _, _, _)
RECURSIVE splitLeafNode(_, _, _, _, _)

\* The node with key added and sorted in; pageNoArray is not touched
\* (lines 225-251).
NonLeafAdd(curNode, key) ==
  [curNode EXCEPT
     !.keyArray = NonLeafBubble(
         [curNode.keyArray EXCEPT ![INTARRAYNONLEAFSIZE - curNode.spaceAvail] = key],
         INTARRAYNONLEAFSIZE - curNode.spaceAvail, 0),
     !.spaceAvail = @ - 1]

\* insertIntoNonLeafNode after its readPage (lines 216-255).
InsertNonLeafBody(m1, pid, key, depth) ==
  IF Stopped(m1) THEN m1
  ELSE IF m1.pages[pid].kind # "nonleaf" THEN [m1 EXCEPT !.halt = "ub"]
  ELSE IF m1.pages[pid].spaceAvail > 0
  THEN unPinPage([m1 EXCEPT !.pages[pid] = NonLeafAdd(m1.pages[pid], key)],
                 pid, TRUE)
  ELSE splitNonLeafNode(unPinPage(m1, pid, FALSE), pid, key, depth + 1)

insertIntoNonLeafNode(m0, pid, key, depth) ==
  InsertNonLeafBody(readPage(m0, pid), pid, key, depth)

\* The sibling that receives the upper half of cur0 (lines 495-526).
SplitNonLeafNew(cur0) ==
  LET half == INTARRAYNONLEAFSIZE \div 2
      odd == INTARRAYNONLEAFSIZE % 2 # 0
  IN [NonLeafNodeInt EXCEPT
        !.level = cur0.level,
        !.parentId = cur0.parentId,
        !.keyArray = [i \in 0..(INTARRAYNONLEAFSIZE - 1) |->
                        IF i < half THEN cur0.keyArray[half + i]
                        ELSE IF odd /\ i = half
                             THEN cur0.keyArray[INTARRAYNONLEAFSIZE - 1]
                             ELSE 0],
        !.pageNoArray = [i \in 0..INTARRAYNONLEAFSIZE |->
                        IF i < half THEN cur0.pageNoArray[half + i]
                        ELSE IF odd /\ i = half
                             THEN cur0.pageNoArray[INTARRAYNONLEAFSIZE]
                        ELSE IF ~odd /\ i = half + 1
                             THEN cur0.pageNoArray[INTARRAYNONLEAFSIZE]
                             ELSE 0],
        !.spaceAvail = IF odd THEN half - 1 ELSE half]

\* What the split leaves in the node itself (lines 503-522).
SplitNonLeafCur(cur0) ==
  LET half == INTARRAYNONLEAFSIZE \div 2
      odd == INTARRAYNONLEAFSIZE % 2 # 0
  IN [cur0 EXCEPT
        !.keyArray = [i \in 0..(INTARRAYNONLEAFSIZE - 1) |->
                        IF (i >= half /\ i < 2 * half)
                           \/ (odd /\ i = INTARRAYNONLEAFSIZE - 1)
                        THEN -1 ELSE cur0.keyArray[i]],
        !.pageNoArray = [i \in 0..INTARRAYNONLEAFSIZE |->
                        IF i >= half /\ i < 2 * half
                        THEN -1 ELSE cur0.pageNoArray[i]],
        !.spaceAvail = half]

\* Indices the non-leaf split takes from the leaf capacity (lines 543, 570).
SplitNonLeafCmpIdx == INTARRAYLEAFSIZE \div 2 - 1
SplitNonLeafPushIdx == INTARRAYLEAFSIZE \div 2

\* Parent branch after the parent was read and unpinned (lines 602-611).
SplitNonLeafParent(m5, parentId, pushedKey, depth) ==
  IF Stopped(m5) THEN m5
  ELSE IF m5.pages[parentId].kind # "nonleaf" THEN [m5 EXCEPT !.halt = "ub"]
  ELSE IF m5.pages[parentId].spaceAvail > 0
  THEN insertIntoNonLeafNode(unPinPage(m5, parentId, TRUE),
                             parentId, pushedKey, depth)
  ELSE m5

\* The key pushed up (lines 566-573).
SplitNonLeafPushedKey(m4, pid, newPageId, addedNewNode) ==
  IF addedNewNode THEN m4.pages[pid].keyArray[SplitNonLeafPushIdx]
  ELSE m4.pages[newPageId].keyArray[0]

\* Lines 566-612: push the key to a new root or to the parent.
SplitNonLeafPush(m4, pid, newPageId, addedNewNode, depth) ==
  IF Stopped(m4) THEN m4
  ELSE IF addedNewNode
          /\ SplitNonLeafPushIdx \notin 0..(INTARRAYNONLEAFSIZE - 1)
  THEN [m4 EXCEPT !.halt = "ub"]
  ELSE IF m4.pages[pid].parentId = -1
  THEN createNewRoot(m4, SplitNonLeafPushedKey(m4, pid, newPageId, addedNewNode),
                     pid, newPageId, FALSE)
  ELSE SplitNonLeafParent(
         unPinPage(readPage(m4, m4.pages[pid].parentId),
                   m4.pages[pid].parentId, TRUE),
         m4.pages[pid].parentId,
         SplitNonLeafPushedKey(m4, pid, newPageId, addedNewNode), depth)

\* Lines 540-562: the key goes to the node itself or to the new sibling.
SplitNonLeafInsert(m2, pid, newPageId, key, addedNewNode, depth) ==
  SplitNonLeafPush(
    unPinPage(unPinPage(
        insertIntoNonLeafNode(m2, IF addedNewNode THEN newPageId ELSE pid,
                              key, depth),
        pid, FALSE), newPageId, FALSE),
    pid, newPageId, addedNewNode, depth)

\* splitNonLeafNode after its readPage (lines 477-612).
SplitNonLeafBody(m1, pid, key, depth) ==
  IF Stopped(m1) THEN m1
  ELSE IF depth > RecursionCap THEN [m1 EXCEPT !.halt = "diverge"]
  ELSE IF m1.pages[pid].kind # "nonleaf" THEN [m1 EXCEPT !.halt = "ub"]
  ELSE IF SplitNonLeafCmpIdx \notin 0..(INTARRAYNONLEAFSIZE - 1)
  THEN [allocPage(m1, SplitNonLeafNew(m1.pages[pid]))
          EXCEPT !.pages[pid] = SplitNonLeafCur(m1.pages[pid]), !.halt = "ub"]
  ELSE SplitNonLeafInsert(
         [allocPage(m1, SplitNonLeafNew(m1.pages[pid]))
            EXCEPT !.pages[pid] = SplitNonLeafCur(m1.pages[pid])],
         pid, Len(m1.pages) + 1, key,
         ~(SplitNonLeafCur(m1.pages[pid]).keyArray[SplitNonLeafCmpIdx] >= key),
         depth)

splitNonLeafNode(m0, pid, key, depth) ==
  SplitNonLeafBody(readPage(m0, pid), pid, key, depth)

\* The leaf with the entry put behind the occupied slots (lines 283-286).
LeafAppend(curNode, rid, key) ==
  [curNode EXCEPT !.ridArray[INTARRAYLEAFSIZE - curNode.spaceAvail] = rid,
                  !.keyArray[INTARRAYLEAFSIZE - curNode.spaceAvail] = key]

\* Lines 288-312: b is the outcome of the sorting loop.
InsertLeafSorted(m1, pid, b) ==
  IF b.ub THEN [m1 EXCEPT !.pages[pid] = b.node, !.halt = "ub"]
  ELSE unPinPage([m1 EXCEPT !.pages[pid] = [b.node EXCEPT !.spaceAvail = @ - 1]],
                 pid, TRUE)

\* insertIntoLeafNode after its readPage (lines 275-320).
InsertLeafBody(m1, pid, rid, key, oob) ==
  IF Stopped(m1) THEN m1
  ELSE IF m1.pages[pid].kind # "leaf" THEN [m1 EXCEPT !.halt = "ub"]
  ELSE IF m1.pages[pid].spaceAvail > 0
  THEN InsertLeafSorted(m1, pid,
         LeafBubble(LeafAppend(m1.pages[pid], rid, key),
                    INTARRAYLEAFSIZE - m1.pages[pid].spaceAvail, oob))
  ELSE splitLeafNode(unPinPage(m1, pid, FALSE), key, rid, pid, oob)

insertIntoLeafNode(m0, pid, rid, key, oob) ==
  InsertLeafBody(readPage(m0, pid), pid, rid, key, oob)

\* The new right sibling (lines 645-668, 686-687).
SplitLeafNew(cur0) ==
  LET half == INTARRAYLEAFSIZE \div 2
      odd == INTARRAYLEAFSIZE % 2 # 0
  IN [LeafNodeInt EXCEPT
        !.keyArray = [i \in 0..(INTARRAYLEAFSIZE - 1) |->
                        IF i < half THEN cur0.keyArray[half + i]
                        ELSE IF odd /\ i = half
                             THEN cur0.keyArray[INTARRAYLEAFSIZE - 1]
                             ELSE 0],
        !.ridArray = [i \in 0..(INTARRAYLEAFSIZE - 1) |->
                        IF i < half THEN cur0.ridArray[half + i]
                        ELSE IF odd /\ i = half
                             THEN cur0.ridArray[INTARRAYLEAFSIZE - 1]
                             ELSE 0],
        !.spaceAvail = INTARRAYLEAFSIZE - half - (IF odd THEN 1 ELSE 0),
        !.rightSibPageNo = cur0.rightSibPageNo,
        !.parentId = cur0.parentId]

\* What the split leaves in the leaf itself (lines 647-664, 689).
SplitLeafCur(cur0, newLeafPageId) ==
  LET half == INTARRAYLEAFSIZE \div 2
      odd == INTARRAYLEAFSIZE % 2 # 0
  IN [cur0 EXCEPT
        !.keyArray = [i \in 0..(INTARRAYLEAFSIZE - 1) |->
                        IF (i >= half /\ i < 2 * half)
                           \/ (odd /\ i = INTARRAYLEAFSIZE - 1)
                        THEN -1 ELSE cur0.keyArray[i]],
        !.spaceAvail = INTARRAYLEAFSIZE - half,
        !.rightSibPageNo = newLeafPageId]

\* Which half takes the incoming key (line 691): TRUE for the old leaf.
LeafSplitTarget(curNode, key) ==
  curNode.keyArray[INTARRAYLEAFSIZE \div 2 - 1] >= key

\* Parent branch after the parent was read and unpinned (lines 732-744).
SplitLeafParent(m4, parentId, pushedKey) ==
  IF Stopped(m4) THEN m4
  ELSE IF m4.pages[parentId].kind # "nonleaf" THEN [m4 EXCEPT !.halt = "ub"]
  ELSE IF m4.pages[parentId].spaceAvail > 0
  THEN insertIntoNonLeafNode(m4, parentId, pushedKey, 0)
  ELSE splitNonLeafNode(m4, parentId, pushedKey, 1)

\* Lines 704-745: push new.keyArray[0] to a new root or to the parent.
SplitLeafPush(m3, pid, newLeafPageId) ==
  IF Stopped(m3) THEN m3
  ELSE IF m3.insertInRoot
  THEN createNewRoot(m3, m3.pages[newLeafPageId].keyArray[0],
                     pid, newLeafPageId, TRUE)
  ELSE SplitLeafParent(
         unPinPage(readPage(m3, m3.pages[pid].parentId),
                   m3.pages[pid].parentId, TRUE),
         m3.pages[pid].parentId, m3.pages[newLeafPageId].keyArray[0])

\* Lines 691-702: the entry goes to the leaf itself or to the new sibling.
SplitLeafInsert(m2, key, rid, pid, newLeafPageId, oob) ==
  SplitLeafPush(
    insertIntoLeafNode(m2, IF LeafSplitTarget(m2.pages[pid], key)
                           THEN pid ELSE newLeafPageId,
                       rid, key, oob),
    pid, newLeafPageId)

\* splitLeafNode after its readPage (lines 630-745).
SplitLeafBody(m1, key, rid, pid, oob) ==
  IF Stopped(m1) THEN m1
  ELSE SplitLeafInsert(
         [allocPage(m1, SplitLeafNew(m1.pages[pid]))
            EXCEPT !.pages[pid] = SplitLeafCur(m1.pages[pid], Len(m1.pages) + 1)],
         key, rid, pid, Len(m1.pages) + 1, oob)

splitLeafNode(m0, key, rid, pid, oob) ==
  SplitLeafBody(readPage(m0, pid), key, rid, pid, oob)

(***************************************************************************)
(* searchNode: result is [m, pid, set]; set = FALSE when the loop ended    *)
(* without assigning the out-parameter pid.                                *)
(***************************************************************************)
\* The child picked in iteration i (lines 401-416): [found, targetId].
SearchPick(curNode, key, numPage, i) ==
  IF key < curNode.keyArray[i]
  THEN [found |-> TRUE, targetId |-> curNode.pageNoArray[i]]
  ELSE IF key > curNode.keyArray[numPage - 1]
  THEN [found |-> TRUE, targetId |-> curNode.pageNoArray[numPage]]
  ELSE [found |-> FALSE, targetId |-> 0]

RECURSIVE SearchLoop(_, _, _, _, _)

\* Lines 418-447, after the picked child targetId was read.
SearchFound(m1, key, currentId, numPage, i, targetId) ==
  IF Stopped(m1) THEN [m |-> m1, pid |-> 0, set |-> FALSE]
  ELSE IF m1.pages[targetId].kind # "leaf"
  THEN [m |-> [m1 EXCEPT !.halt = "ub"], pid |-> 0, set |-> FALSE]
  ELSE IF m1.pages[currentId].level = 1
  THEN [m |-> unPinPage([m1 EXCEPT !.pages[targetId].parentId = currentId],
                        currentId, FALSE),
        pid |-> targetId, set |-> TRUE]
  ELSE SearchLoop(unPinPage([m1 EXCEPT !.pages[targetId].parentId = currentId],
                            currentId, FALSE),
                  key, currentId, numPage, i + 1)

SearchLoop(m, key, currentId, numPage, i) ==
  IF Stopped(m) \/ i >= numPage THEN [m |-> m, pid |-> 0, set |-> FALSE]
  ELSE IF ~SearchPick(m.pages[currentId], key, numPage, i).found
  THEN SearchLoop(m, key, currentId, numPage, i + 1)
  ELSE SearchFound(
         readPage(m, SearchPick(m.pages[currentId], key, numPage, i).targetId),
         key, currentId, numPage, i,
         SearchPick(m.pages[currentId], key, numPage, i).targetId)

\* searchNode after its readPage (lines 380-449).
SearchBody(m1, key, currentId) ==
  IF Stopped(m1) THEN [m |-> m1, pid |-> 0, set |-> FALSE]
  ELSE IF m1.pages[currentId].kind # "nonleaf"
  THEN [m |-> [m1 EXCEPT !.halt = "ub"], pid |-> 0, set |-> FALSE]
  ELSE SearchLoop(m1, key, currentId,
                  INTARRAYNONLEAFSIZE - m1.pages[currentId].spaceAvail, 0)

searchNode(m0, key, currentId) ==
  SearchBody(readPage(m0, currentId), key, currentId)

(***************************************************************************)
(* insertEntry.  garbage is the value found in the local resultPage when   *)
(* searchNode returned without assigning it.                               *)
(***************************************************************************)
\* Lines 186-194: s is the leaf located, the root itself while insertInRoot.
InsertLocated(s, key, rid, garbage, oob) ==
  insertIntoLeafNode(s.m, IF s.set THEN s.pid ELSE garbage, rid, key, oob)

insertEntry(m, key, rid, garbage, oob) ==
  InsertLocated(IF m.insertInRoot
                THEN [m |-> m, pid |-> m.rootPageNum, set |-> TRUE]
                ELSE searchNode(m, key, m.rootPageNum),
                key, rid, garbage, oob)

(***************************************************************************)
(* keyCorrect and the body of scanNext after its two guards                *)
(***************************************************************************)
\* The operator pairs on which keyCorrect reaches a return statement.
ReturnReached(lOp, hOp) == lOp \in {"GTE", "GT"} /\ hOp \in {"LTE", "LT"}

\* What a call that flows off the end of keyCorrect does: the caller finds
\* a non-zero or a zero byte as the result, or anything else happens.
UnreachedOutcomes == {"true", "false", "ub"}

\* unreached: the value the caller finds when no return statement was
\* reached (lines 844-862 have none for the other operator pairs).
keyCorrect(lOp, hOp, lowVal, highVal, key, unreached) ==
  IF lOp = "GTE"
  THEN (IF hOp = "LTE" THEN key <= highVal /\ key >= lowVal
        ELSE IF hOp = "LT" THEN key < highVal /\ key >= lowVal
        ELSE unreached)
  ELSE IF lOp = "GT"
  THEN (IF hOp = "LTE" THEN key <= highVal /\ key > lowVal
        ELSE IF hOp = "LT" THEN key < highVal /\ key > lowVal
        ELSE unreached)
  ELSE unreached

(***************************************************************************)
(* State                                                                   *)
(***************************************************************************)
VARIABLES
  pages,            \* contents of the pages of the index file, by page id
  pinCnt,           \* pins held on each page
  dirty,            \* dirty bit of each page
  rootPageNum,
  insertInRoot,
  scanExecuting,
  nextEntry,
  currentPageNum,
  currentPageData,  \* page id the pointer refers to, 0 for NULL
  lowOp, highOp, lowValInt, highValInt,
  indeterminate,    \* members that were never assigned
  halted,           \* "no", or the outcome that ended the process
  hist,             \* the insertEntry calls so far: [key, rid, res]
  call,             \* the last public call and its result
  delivered,        \* RIDs handed out by scanNext since the last startScan
  nScan,            \* scan calls made
  handle,           \* "open", "unusable" (constructed, file never set),
                    \* or "destroyed" (no index object)
  fileName,         \* the index file the pages belong to: [rel, off]
  disk,             \* the index files left behind by destroyed handles
  nTuples,          \* tuples in each relation
  nOpen             \* constructor calls after the first

vars == <<pages, pinCnt, dirty, rootPageNum, insertInRoot, scanExecuting,
          nextEntry, currentPageNum, currentPageData, lowOp, highOp,
          lowValInt, highValInt, indeterminate, halted, hist, call,
          delivered, nScan, handle, fileName, disk, nTuples, nOpen,
          leafOccupancy>>

lifeVars == <<handle, fileName, disk, nTuples, nOpen, leafOccupancy>>

scanVars == <<scanExecuting, nextEntry, currentPageNum, currentPageData,
              lowOp, highOp, lowValInt, highValInt, indeterminate, delivered>>

Machine == [pages |-> pages, pinCnt |-> pinCnt, dirty |-> dirty,
            rootPageNum |-> rootPageNum, insertInRoot |-> insertInRoot,
            exc |-> "none", halt |-> "no"]

Outcome(m) == IF m.halt # "no" THEN m.halt
              ELSE IF m.exc # "none" THEN m.exc ELSE "ok"

NoCall == [op |-> "none", res |-> "ok", key |-> 0, lowVal |-> 0,
           lowOp |-> "none", highVal |-> 0, highOp |-> "none",
           relationName |-> "none", attrByteOffset |-> 0,
           attrType |-> "none", existed |-> FALSE]

FileNames == [rel : RelationNames, off : AttrByteOffsets]
NoFile == [exists |-> FALSE, pages |-> <<>>, hist |-> <<>>]

(***************************************************************************)
(* Constructor, build path: meta page, empty root leaf, then one           *)
(* insertEntry per tuple of the relation.                                  *)
(***************************************************************************)
\* Values the unassigned resultPage may hold: no page (0) or any page id.
Unassigned(s, m) ==
  IF Stopped(s.m) \/ s.set THEN {0} ELSE 0..Len(m.pages)

GarbagePages(m, key) ==
  IF m.insertInRoot THEN {0}
  ELSE Unassigned(searchNode(m, key, m.rootPageNum), m)

\* What the out-of-bounds read of insertIntoLeafNode's loop does.
OobOutcomes == {"break", "smash"}

\* The machines the bulk load (lines 131-139) can leave: one insertEntry per
\* tuple, each with any outcome of its out-of-bounds read and any value of
\* an unassigned resultPage.
RECURSIVE BulkLoad(_, _, _)
BulkLoad(m, relation, n) ==
  IF n > Len(relation) \/ Stopped(m) THEN {m}
  ELSE UNION {BulkLoad(inserted, relation, n + 1) :
                inserted \in {insertEntry(m, relation[n], n, garbage, oob) :
                                oob \in OobOutcomes,
                                garbage \in GarbagePages(m, relation[n])}}

\* The meta page at the strcpy of line 94: allocated, pinned, zero-filled.
BuildPathMeta ==
  allocPage([pages |-> <<>>, pinCnt |-> <<>>, dirty |-> <<>>,
             rootPageNum |-> 0, insertInRoot |-> TRUE,
             exc |-> "none", halt |-> "no"],
            [IndexMetaInfo EXCEPT !.relationName = ""])

\* The build path after the strcpy returned (lines 95-139).
BuildPathCopied(relationName, attrByteOffset, attrType, relation) ==
  LET m1 == [BuildPathMeta EXCEPT
               !.pages[1].relationName =
                  MetaRelationName(relationName, attrByteOffset),
               !.pages[1].attrByteOffset = attrByteOffset,
               !.pages[1].attrType = attrType]
      rootPageId == Len(m1.pages) + 1
      rootPage == [LeafNodeInt EXCEPT !.rightSibPageNo = INVALID_NUMBER,
                                      !.spaceAvail = INTARRAYLEAFSIZE,
                                      !.parentId = -1]
      m2 == [allocPage(m1, rootPage) EXCEPT !.rootPageNum = rootPageId]
      m3 == unPinPage(m2, rootPageId, TRUE)
      m4 == unPinPage([m3 EXCEPT !.pages[1].rootPageNo = rootPageId], 1, TRUE)
  IN BulkLoad(m4, relation, 1)

\* The machines the build path (lines 84-139) can leave.  A name that does
\* not fit the array makes the strcpy of line 94 write behind it: the copy
\* runs into the members that follow, or the process is stopped there.
BuildPath(relationName, attrByteOffset, attrType, relation) ==
  (IF NameLen(relationName) >= RelationNameSize
   THEN {[BuildPathMeta EXCEPT !.halt = "crash"]} ELSE {})
  \cup BuildPathCopied(relationName, attrByteOffset, attrType, relation)

\* The constructor on the relation "rel", attribute at offset 0, with no
\* index file yet.
BTreeIndex(relation) == BuildPath("rel", 0, "INTEGER", relation)

\* Constructor, open path (lines 70-83) on the pages of an existing file;
\* garbage is the value rootPageNum holds, which the path never assigns.
OpenPathChecked(m1, relationName, attrByteOffset, attrType) ==
  IF relationName # m1.pages[1].relationName
       \/ attrType # m1.pages[1].attrType
       \/ attrByteOffset # m1.pages[1].attrByteOffset
  THEN [m1 EXCEPT !.exc = "BadIndexInfoException"]
  ELSE unPinPage(m1, 1, FALSE)

OpenPath(filePages, relationName, attrByteOffset, attrType, garbage) ==
  OpenPathChecked(
    readPage([pages |-> filePages,
              pinCnt |-> [p \in 1..Len(filePages) |-> 0],
              dirty |-> [p \in 1..Len(filePages) |-> FALSE],
              rootPageNum |-> garbage, insertInRoot |-> TRUE,
              exc |-> "none", halt |-> "no"], 1),
    relationName, attrByteOffset, attrType)

\* The members after the constructor built the index over n tuples.
Built(m, n) ==
       /\ ~Stopped(m)
       /\ pages = m.pages
       /\ pinCnt = m.pinCnt
       /\ dirty = m.dirty
       /\ rootPageNum = m.rootPageNum
       /\ insertInRoot = m.insertInRoot
       /\ scanExecuting = FALSE
       /\ nextEntry = 0
       /\ currentPageNum = 0
       /\ currentPageData = 0
       /\ lowOp = "LT"
       /\ highOp = "LT"
       /\ lowValInt = 0
       /\ highValInt = 0
       /\ indeterminate = {"nextEntry", "currentPageNum", "currentPageData",
                           "lowOp", "highOp", "lowValInt", "highValInt"}
       /\ halted = "no"
       /\ hist = [i \in 1..n |-> [key |-> SeedRelation[i], rid |-> i, res |-> "ok"]]
       /\ call = [NoCall EXCEPT !.op = "build"]
       /\ delivered = <<>>
       /\ nScan = 0
       /\ handle = "open"
       /\ fileName = [rel |-> "rel", off |-> 0]
       /\ disk = [f \in FileNames |-> NoFile]
       /\ nTuples = n
       /\ nOpen = 0

Init ==
  \E size \in LeafSizes, n \in 0..Len(SeedRelation) :
    /\ leafOccupancy = size
    /\ \E m \in BTreeIndex(SubSeq(SeedRelation, 1, n)) : Built(m, n)

(***************************************************************************)
(* insertEntry                                                             *)
(***************************************************************************)
FreeInserts == Cardinality({i \in 1..Len(hist) : hist[i].rid > Len(SeedRelation)})

\* The state after insertEntry(key, rid) left the machine as m.
Returned(m, key, rid) ==
  /\ pages' = m.pages
  /\ pinCnt' = m.pinCnt
  /\ dirty' = m.dirty
  /\ rootPageNum' = m.rootPageNum
  /\ insertInRoot' = m.insertInRoot
  /\ halted' = m.halt
  /\ hist' = Append(hist, [key |-> key, rid |-> rid, res |-> Outcome(m)])
  /\ call' = [NoCall EXCEPT !.op = "insertEntry", !.res = Outcome(m),
                            !.key = key]

\* Exploration order: the index is bulk-loaded, then either grown by
\* insertEntry calls or scanned.
InsertEntry ==
  /\ halted = "no"
  /\ handle = "open"
  /\ nOpen < MaxOpens
  /\ nScan = 0
  /\ FreeInserts < MaxInserts
  /\ \E key \in Keys, oob \in OobOutcomes :
     \E garbage \in GarbagePages(Machine, key) :
       Returned(insertEntry(Machine, key, Len(SeedRelation) + FreeInserts + 1,
                            garbage, oob),
                key, Len(SeedRelation) + FreeInserts + 1)
  /\ UNCHANGED <<scanVars, nScan, lifeVars>>

(***************************************************************************)
(* Scan.  sc is the record of the scan members plus the pin table and the  *)
(* exception in flight.                                                    *)
(***************************************************************************)
ScanKeys == {-2, 2}
\* Values that the read through (int *)highOpParm may deliver when it does
\* not fault: one below and one above every scan bound.
GarbageInts == {-3, 3}
\* Outcomes of that read: a fault, or one of the values above.
DerefOutcomes == {[fault |-> TRUE, val |-> 0]}
                 \cup {[fault |-> FALSE, val |-> v] : v \in GarbageInts}

\* Outcomes of an access through a pointer that was never assigned: a
\* fault, or a read of whatever lies there.
WildOutcomes == {"crash", "ub"}

ScanState ==
  [scanExecuting |-> scanExecuting, nextEntry |-> nextEntry,
   currentPageNum |-> currentPageNum, currentPageData |-> currentPageData,
   lowOp |-> lowOp, highOp |-> highOp, lowValInt |-> lowValInt,
   highValInt |-> highValInt, indeterminate |-> indeterminate,
   pinCnt |-> pinCnt, dirty |-> dirty, delivered |-> delivered,
   exc |-> "none", halt |-> "no"]

\* An operator check that fires only when both codes are wrong: what
\* C10_BadOpcodesFirst has to notice.
BadOpcodesBoth(lowOpParm, highOpParm) ==
  (lowOpParm # "GT" /\ lowOpParm # "GTE")
    /\ (highOpParm # "LT" /\ highOpParm # "LTE")

BadOpcodes(lowOpParm, highOpParm) ==
  (lowOpParm # "GT" /\ lowOpParm # "GTE")
    \/ (highOpParm # "LT" /\ highOpParm # "LTE")

\* unPinPage on the pin table carried by sc
ScanUnPin(sc, pid, isDirty) ==
  IF pid \notin 1..Len(sc.pinCnt) THEN sc
  ELSE IF sc.pinCnt[pid] = 0 THEN [sc EXCEPT !.exc = "PageNotPinnedException"]
  ELSE [sc EXCEPT !.pinCnt[pid] = @ - 1, !.dirty[pid] = @ \/ isDirty]

\* garbage: the value of currentPageNum when it was never assigned
endScan(sc, garbage) ==
  IF ~sc.scanExecuting THEN [sc EXCEPT !.exc = "ScanNotInitializedException"]
  ELSE
    LET s1 == [sc EXCEPT !.scanExecuting = FALSE, !.nextEntry = -1,
                         !.indeterminate = @ \ {"nextEntry"}]
        pid == IF "currentPageNum" \in sc.indeterminate THEN garbage
               ELSE sc.currentPageNum
        s2 == ScanUnPin(s1, pid, FALSE)
    IN IF s2.exc # "none" THEN s2
       ELSE [s2 EXCEPT !.currentPageNum = -1, !.currentPageData = 0,
                       !.lowOp = "LT", !.highOp = "LT",
                       !.lowValInt = -1, !.highValInt = -1,
                       !.indeterminate = {}]

\* deref: outcome of *(int *)highOpParm, a member of DerefOutcomes
startScan(sc, lowValParm, lowOpParm, highValParm, highOpParm, deref, garbage) ==
  IF BadOpcodes(lowOpParm, highOpParm)
  THEN [sc EXCEPT !.exc = "BadOpcodesException"]
  ELSE
    LET s1 == [sc EXCEPT !.lowOp = lowOpParm, !.highOp = highOpParm,
                         !.lowValInt = lowValParm,
                         !.indeterminate = @ \ {"lowOp", "highOp", "lowValInt"}]
    IN
    IF deref.fault THEN [s1 EXCEPT !.halt = "crash"]
    ELSE
      LET s2 == [s1 EXCEPT !.highValInt = deref.val,
                           !.indeterminate = @ \ {"highValInt"}]
      IN
      IF s2.lowValInt > s2.highValInt
      THEN [s2 EXCEPT !.exc = "BadScanrangeException"]
      ELSE
        LET s3 == IF s2.scanExecuting THEN endScan(s2, garbage) ELSE s2 IN
        IF s3.exc # "none" THEN s3
        ELSE [s3 EXCEPT !.scanExecuting = TRUE]

\* entry: the value nextEntry holds when it was never assigned (the member
\* keeps it from then on); wild: what the access through a currentPageData
\* that was never assigned, or is NULL, does; unreached: what a keyCorrect
\* that reaches no return statement does, a member of UnreachedOutcomes.
scanNext(sc, pgs, entry, wild, unreached) ==
  IF ~sc.scanExecuting THEN [sc EXCEPT !.exc = "ScanNotInitializedException"]
  ELSE
    LET e == IF "nextEntry" \in sc.indeterminate THEN entry ELSE sc.nextEntry IN
    IF e = -1 THEN [sc EXCEPT !.exc = "IndexScanCompletedException",
                              !.nextEntry = e,
                              !.indeterminate = @ \ {"nextEntry"}]
    ELSE IF "currentPageData" \in sc.indeterminate
            \/ sc.currentPageData \notin 1..Len(pgs)
    THEN [sc EXCEPT !.halt = wild, !.nextEntry = e,
                    !.indeterminate = @ \ {"nextEntry"}]
    ELSE IF pgs[sc.currentPageData].kind # "leaf"
            \/ e \notin 0..(INTARRAYLEAFSIZE - 1)
    THEN [sc EXCEPT !.halt = "ub"]
    ELSE
      \* e = leafOccupancy would have read ridArray[INTARRAYLEAFSIZE] above
      LET currentNode == pgs[sc.currentPageData] IN
      IF currentNode.ridArray[e] = 0
      THEN IF currentNode.rightSibPageNo = 0
           THEN [sc EXCEPT !.exc = "IndexScanCompletedException"]
           ELSE LET s1 == ScanUnPin(sc, sc.currentPageNum, FALSE)
                    sib == currentNode.rightSibPageNo
                IN IF s1.exc # "none" THEN s1
                   ELSE IF sib \notin 1..Len(pgs)
                   THEN [s1 EXCEPT !.currentPageNum = sib,
                                   !.exc = "InvalidPageException"]
                   ELSE [s1 EXCEPT !.currentPageNum = sib,
                                   !.pinCnt[sib] = @ + 1,
                                   !.currentPageData = sib,
                                   !.nextEntry = 0,
                                   !.indeterminate = @ \ {"nextEntry",
                                        "currentPageNum", "currentPageData"}]
      ELSE IF ~ReturnReached(sc.lowOp, sc.highOp) /\ unreached = "ub"
      THEN [sc EXCEPT !.halt = "ub"]
      ELSE IF keyCorrect(sc.lowOp, sc.highOp, sc.lowValInt, sc.highValInt,
                         currentNode.keyArray[e], unreached = "true")
           THEN [sc EXCEPT !.delivered = Append(@, currentNode.ridArray[e]),
                           !.nextEntry = e + 1,
                           !.indeterminate = @ \ {"nextEntry"}]
           ELSE sc

ScanOutcome(sc) == IF sc.halt # "no" THEN sc.halt
                   ELSE IF sc.exc # "none" THEN sc.exc ELSE "ok"

SetScan(sc) ==
  /\ scanExecuting' = sc.scanExecuting
  /\ nextEntry' = sc.nextEntry
  /\ currentPageNum' = sc.currentPageNum
  /\ currentPageData' = sc.currentPageData
  /\ lowOp' = sc.lowOp
  /\ highOp' = sc.highOp
  /\ lowValInt' = sc.lowValInt
  /\ highValInt' = sc.highValInt
  /\ indeterminate' = sc.indeterminate
  /\ pinCnt' = sc.pinCnt
  /\ dirty' = sc.dirty
  /\ delivered' = sc.delivered
  /\ halted' = sc.halt

GarbagePageNum == IF scanExecuting /\ "currentPageNum" \in indeterminate
                  THEN 0..Len(pages) ELSE {0}

\* Operator codes handed to startScan: both valid ones and one wrong one
\* for each side.
LowOpParms == {"GT", "GTE", "LTE"}
HighOpParms == {"LT", "LTE", "GTE"}

StartScan ==
  /\ halted = "no"
  /\ handle = "open"
  /\ nOpen < MaxOpens
  /\ FreeInserts = 0
  /\ nScan < MaxScanCalls
  /\ \E lowValParm \in ScanKeys, highValParm \in ScanKeys,
        lowOpParm \in LowOpParms, highOpParm \in HighOpParms :
     \E deref \in (IF BadOpcodes(lowOpParm, highOpParm)
                   THEN {[fault |-> TRUE, val |-> 0]} ELSE DerefOutcomes) :
     \E garbage \in (IF BadOpcodes(lowOpParm, highOpParm) \/ deref.fault
                        \/ lowValParm > deref.val
                     THEN {0} ELSE GarbagePageNum) :
       LET sc == startScan([ScanState EXCEPT !.delivered = <<>>],
                           lowValParm, lowOpParm, highValParm, highOpParm,
                           deref, garbage)
       IN /\ SetScan(IF sc.exc = "BadOpcodesException" THEN ScanState ELSE sc)
          /\ call' = [NoCall EXCEPT !.op = "startScan", !.res = ScanOutcome(sc),
                                    !.lowVal = lowValParm, !.lowOp = lowOpParm,
                                    !.highVal = highValParm,
                                    !.highOp = highOpParm]
  /\ nScan' = nScan + 1
  /\ UNCHANGED <<pages, rootPageNum, insertInRoot, hist, lifeVars>>

ScanNext ==
  /\ halted = "no"
  /\ handle = "open"
  /\ nOpen < MaxOpens
  /\ FreeInserts = 0
  /\ nScan < MaxScanCalls
  /\ \E entry \in (IF scanExecuting /\ "nextEntry" \in indeterminate
                   THEN {-1, 0} ELSE {0}) :
     \E wild \in (IF scanExecuting /\ "currentPageData" \in indeterminate
                     /\ ("nextEntry" \notin indeterminate => nextEntry # -1)
                     /\ entry # -1
                  THEN WildOutcomes ELSE {"crash"}) :
     \E unreached \in (IF scanExecuting /\ ~ReturnReached(lowOp, highOp)
                       THEN UnreachedOutcomes ELSE {"false"}) :
       LET sc == scanNext(ScanState, pages, entry, wild, unreached)
       IN /\ SetScan(sc)
          /\ call' = [NoCall EXCEPT !.op = "scanNext", !.res = ScanOutcome(sc)]
  /\ nScan' = nScan + 1
  /\ UNCHANGED <<pages, rootPageNum, insertInRoot, hist, lifeVars>>

EndScan ==
  /\ halted = "no"
  /\ handle = "open"
  /\ nOpen < MaxOpens
  /\ FreeInserts = 0
  /\ nScan < MaxScanCalls
  /\ \E garbage \in GarbagePageNum :
       LET sc == endScan(ScanState, garbage)
       IN /\ SetScan(sc)
          /\ call' = [NoCall EXCEPT !.op = "endScan", !.res = ScanOutcome(sc)]
  /\ nScan' = nScan + 1
  /\ UNCHANGED <<pages, rootPageNum, insertInRoot, hist, lifeVars>>

Next == InsertEntry \/ StartScan \/ ScanNext \/ EndScan

Spec == Init /\ [][Next]_vars

(***************************************************************************)
(* Destructor, and the constructor on a relation whose index may exist.    *)
(***************************************************************************)
\* BufMgr::flushFile on the pin table carried by sc: refused while a page of
\* the file is pinned.
flushFile(sc) ==
  IF \E p \in 1..Len(sc.pinCnt) : sc.pinCnt[p] > 0
  THEN [sc EXCEPT !.exc = "PagePinnedException"]
  ELSE [sc EXCEPT !.dirty = [p \in 1..Len(sc.dirty) |-> FALSE]]

\* Lines 155-161: only ScanNotInitializedException is caught.
DestructorEndScan(sc, garbage) ==
  IF ~sc.scanExecuting THEN sc
  ELSE IF endScan(sc, garbage).exc = "ScanNotInitializedException"
  THEN [endScan(sc, garbage) EXCEPT !.exc = "none"]
  ELSE endScan(sc, garbage)

\* ~BTreeIndex (lines 152-166).  fileSet: the member file was assigned by
\* the constructor; wild: what flushFile and delete do with it otherwise.
Destructor(sc, fileSet, garbage, wild) ==
  IF DestructorEndScan(sc, garbage).exc # "none"
  THEN DestructorEndScan(sc, garbage)
  ELSE IF ~fileSet
  THEN [DestructorEndScan(sc, garbage) EXCEPT !.scanExecuting = FALSE,
                                              !.halt = wild]
  ELSE flushFile([DestructorEndScan(sc, garbage) EXCEPT !.scanExecuting = FALSE])

\* An exception that leaves the destructor ends the process.
Destroy ==
  /\ halted = "no"
  /\ handle \in {"open", "unusable"}
  /\ \E garbage \in GarbagePageNum :
     \E wild \in (IF handle = "unusable" THEN WildOutcomes ELSE {"crash"}) :
       LET sc == Destructor(ScanState, handle = "open", garbage, wild)
       IN /\ scanExecuting' = sc.scanExecuting
          /\ nextEntry' = sc.nextEntry
          /\ currentPageNum' = sc.currentPageNum
          /\ currentPageData' = sc.currentPageData
          /\ lowOp' = sc.lowOp
          /\ highOp' = sc.highOp
          /\ lowValInt' = sc.lowValInt
          /\ highValInt' = sc.highValInt
          /\ indeterminate' = sc.indeterminate
          /\ pinCnt' = sc.pinCnt
          /\ dirty' = sc.dirty
          /\ delivered' = sc.delivered
          /\ halted' = IF sc.exc # "none" THEN "terminate" ELSE sc.halt
          /\ handle' = IF ScanOutcome(sc) = "ok" THEN "destroyed" ELSE handle
          /\ disk' = IF ScanOutcome(sc) = "ok"
                     THEN [disk EXCEPT ![fileName] =
                             [exists |-> TRUE, pages |-> pages, hist |-> hist]]
                     ELSE disk
          /\ call' = [NoCall EXCEPT !.op = "destroy", !.res = ScanOutcome(sc)]
  /\ UNCHANGED <<pages, rootPageNum, insertInRoot, hist, nScan, fileName,
                 nTuples, nOpen, leafOccupancy>>

\* The inserts of a bulk load over the first n tuples.
BuildHist(n) ==
  [i \in 1..n |-> [key |-> SeedRelation[i], rid |-> i, res |-> "ok"]]

\* BTreeIndex::BTreeIndex (lines 39-144) on the files of dsk.  cur is the
\* machine left by the last handle; each result names the file the new
\* handle works on, its inserts, and the machine.
Constructed(cur, curFile, curHist, dsk, n, relationName, attrByteOffset, attrType, garbage) ==
  IF attrType # "INTEGER"
  THEN {[returned |-> TRUE, file |-> curFile, hist |-> curHist,
         m |-> [cur EXCEPT !.rootPageNum = garbage, !.insertInRoot = TRUE]]}
  ELSE IF dsk[[rel |-> relationName, off |-> attrByteOffset]].exists
  THEN {[returned |-> FALSE,
         file |-> [rel |-> relationName, off |-> attrByteOffset],
         hist |-> dsk[[rel |-> relationName, off |-> attrByteOffset]].hist,
         m |-> OpenPath(dsk[[rel |-> relationName, off |-> attrByteOffset]].pages,
                        relationName, attrByteOffset, attrType, garbage)]}
  ELSE {[returned |-> FALSE,
         file |-> [rel |-> relationName, off |-> attrByteOffset],
         hist |-> IF Stopped(built) THEN <<>> ELSE BuildHist(n),
         m |-> built] :
          built \in BuildPath(relationName, attrByteOffset, attrType,
                              SubSeq(SeedRelation, 1, n))}

\* Values of the member rootPageNum of a handle whose constructor did not
\* assign it (the return of line 61, the open path of lines 70-83): what the
\* object's memory held, no page or any page of the file opened or of the
\* file of the handle that lived there before.  The build path assigns it.
GarbageRoots(relationName, attrByteOffset, attrType) ==
  IF attrType # "INTEGER" THEN 0..Len(pages)
  ELSE IF disk[[rel |-> relationName, off |-> attrByteOffset]].exists
  THEN 0..Len(disk[[rel |-> relationName, off |-> attrByteOffset]].pages)
  ELSE {0}

\* Exploration order: a constructor call follows the destruction of a handle
\* that was not used.
Open ==
  /\ halted = "no"
  /\ handle = "destroyed"
  /\ nOpen < MaxOpens
  /\ FreeInserts = 0
  /\ nScan = 0
  /\ \E relationName \in RelationNames, attrByteOffset \in AttrByteOffsets,
        attrType \in Datatypes :
     \E garbage \in GarbageRoots(relationName, attrByteOffset, attrType) :
     \E c \in Constructed(Machine, fileName, hist, disk, nTuples,
                          relationName, attrByteOffset, attrType, garbage) :
          /\ pages' = c.m.pages
          /\ pinCnt' = c.m.pinCnt
          /\ dirty' = c.m.dirty
          /\ rootPageNum' = c.m.rootPageNum
          /\ insertInRoot' = c.m.insertInRoot
          /\ halted' = c.m.halt
          /\ hist' = c.hist
          /\ fileName' = c.file
          /\ handle' = IF c.returned THEN "unusable"
                       ELSE IF Stopped(c.m) THEN "destroyed" ELSE "open"
          /\ call' = [NoCall EXCEPT
                        !.op = "BTreeIndex", !.res = Outcome(c.m),
                        !.relationName = relationName,
                        !.attrByteOffset = attrByteOffset,
                        !.attrType = attrType,
                        !.existed =
                          disk[[rel |-> relationName,
                                off |-> attrByteOffset]].exists]
  /\ scanExecuting' = FALSE
  /\ nextEntry' = 0
  /\ currentPageNum' = 0
  /\ currentPageData' = 0
  /\ lowOp' = "LT"
  /\ highOp' = "LT"
  /\ lowValInt' = 0
  /\ highValInt' = 0
  /\ indeterminate' = {"nextEntry", "currentPageNum", "currentPageData",
                       "lowOp", "highOp", "lowValInt", "highValInt"}
  /\ delivered' = <<>>
  /\ nOpen' = nOpen + 1
  /\ UNCHANGED <<disk, nTuples, nScan, leafOccupancy>>

\* The handle's whole life: built, used, destroyed, constructed again.
NextLife == Next \/ Destroy \/ Open

Lifecycle == Init /\ [][NextLife]_vars


(***************************************************************************)
(* Observations on the index file, used by the properties below.           *)
(***************************************************************************)
IsPage(p) == p \in 1..Len(pages)
IsLeaf(p) == IsPage(p) /\ pages[p].kind = "leaf"
IsNonLeaf(p) == IsPage(p) /\ pages[p].kind = "nonleaf"

Capacity(p) == IF pages[p].kind = "leaf" THEN INTARRAYLEAFSIZE
               ELSE INTARRAYNONLEAFSIZE
Occupied(p) == Capacity(p) - pages[p].spaceAvail

\* The pages named by the k + 1 child pointers of an internal node with k keys.
Children(p) ==
  {pages[p].pageNoArray[i] : i \in 0..Occupied(p)} \cap (1..Len(pages))

RECURSIVE Reach(_, _)
Reach(ps, fuel) ==
  LET next == ps \cup UNION {Children(p) : p \in {q \in ps : IsNonLeaf(q)}}
  IN IF fuel = 0 \/ next = ps THEN ps ELSE Reach(next, fuel - 1)

\* Pages reachable from the root through child pointers.
Reachable == IF IsPage(rootPageNum) THEN Reach({rootPageNum}, Len(pages)) ELSE {}

\* Lengths of the paths from p down to a leaf.
RECURSIVE LeafDepths(_, _)
LeafDepths(p, fuel) ==
  IF IsLeaf(p) THEN {0}
  ELSE IF ~IsNonLeaf(p) \/ fuel = 0 THEN {}
  ELSE UNION {{d + 1 : d \in LeafDepths(c, fuel - 1)} : c \in Children(p)}

RECURSIVE Leftmost(_, _)
Leftmost(p, fuel) ==
  IF IsLeaf(p) THEN p
  ELSE IF IsNonLeaf(p) /\ fuel > 0
  THEN Leftmost(pages[p].pageNoArray[0], fuel - 1)
  ELSE INVALID_NUMBER

RECURSIVE Chain(_, _)
Chain(p, fuel) ==
  IF ~IsLeaf(p) \/ fuel = 0 THEN <<>>
  ELSE <<p>> \o Chain(pages[p].rightSibPageNo, fuel - 1)

\* The leaves met from the leftmost leaf along rightSibPageNo.
LeafChain == Chain(Leftmost(rootPageNum, Len(pages)), Len(pages) + 1)

\* The valid (key, rid) pairs of a leaf, in slot order.
LeafEntries(p) ==
  [i \in 1..Occupied(p) |->
     [key |-> pages[p].keyArray[i - 1], rid |-> pages[p].ridArray[i - 1]]]

RECURSIVE Entries(_)
Entries(chain) ==
  IF chain = <<>> THEN <<>>
  ELSE LeafEntries(Head(chain)) \o Entries(Tail(chain))

ChainEntries == Entries(LeafChain)

\* The pairs handed to insertEntry so far (bulk load included).
Inserted == [i \in 1..Len(hist) |-> [key |-> hist[i].key, rid |-> hist[i].rid]]

Range(f) == {f[i] : i \in DOMAIN f}

\* Keys stored in the subtree of p.
RECURSIVE SubtreeKeys(_, _)
SubtreeKeys(p, fuel) ==
  IF IsLeaf(p) THEN {pages[p].keyArray[i] : i \in 0..(Occupied(p) - 1)}
  ELSE IF ~IsNonLeaf(p) \/ fuel = 0 THEN {}
  ELSE UNION {SubtreeKeys(c, fuel - 1) : c \in Children(p)}

\* The process is alive and every insertEntry so far returned normally.
AllReturned ==
  halted = "no" /\ \A i \in 1..Len(hist) : hist[i].res = "ok"

(***************************************************************************)
(* Properties                                                              *)
(***************************************************************************)
\* C1 (coverage): after the build and any sequence of inserts that all
\* returned, the pairs met along the leaf chain from the leftmost leaf are,
\* as a multiset, the pairs inserted so far: none lost, none duplicated, each
\* key with its own rid.  (The inserted pairs have distinct rids, so equal
\* length and equal sets make equal multisets.)
C1_Coverage ==
  AllReturned =>
    /\ Len(ChainEntries) = Len(hist)
    /\ Range(ChainEntries) = Range(Inserted)

\* C2 (leaf order): after every insert returned, the valid keys of every
\* leaf are in non-decreasing order.
C2_LeafKeysSorted ==
  AllReturned =>
    \A p \in 1..Len(pages) :
      pages[p].kind = "leaf" =>
        \A i, j \in 0..(Occupied(p) - 1) :
          i < j => pages[p].keyArray[i] <= pages[p].keyArray[j]

\* C3 (sibling chain): after every insert returned, the chain from the
\* leftmost leaf visits every leaf reachable from the root exactly once, ends
\* at INVALID_NUMBER, and the keys met along it are non-decreasing.
C3_SiblingChain ==
  AllReturned =>
    /\ LeafChain # <<>>
    /\ \A i, j \in 1..Len(LeafChain) : i < j => LeafChain[i] # LeafChain[j]
    /\ {p \in Reachable : IsLeaf(p)} \subseteq Range(LeafChain)
    /\ pages[LeafChain[Len(LeafChain)]].rightSibPageNo = INVALID_NUMBER
    /\ \A i, j \in 1..Len(ChainEntries) :
         i < j => ChainEntries[i].key <= ChainEntries[j].key

\* C4 (separators): after every insert returned, every internal node with k
\* keys has them in non-decreasing order, has k + 1 valid child pointers, and
\* for every i < k the keys below child i are < keys[i] and the keys below
\* child i + 1 are >= keys[i].
C4_Separators ==
  AllReturned =>
    \A p \in {q \in Reachable : IsNonLeaf(q)} :
      /\ \A i, j \in 0..(Occupied(p) - 1) :
           i < j => pages[p].keyArray[i] <= pages[p].keyArray[j]
      /\ \A i \in 0..Occupied(p) : IsPage(pages[p].pageNoArray[i])
      /\ \A i \in 0..(Occupied(p) - 1) :
           /\ \A k \in SubtreeKeys(pages[p].pageNoArray[i], Len(pages)) :
                k < pages[p].keyArray[i]
           /\ \A k \in SubtreeKeys(pages[p].pageNoArray[i + 1], Len(pages)) :
                k >= pages[p].keyArray[i]

\* C5 (equal depth): after every insert, all paths from the root down to a
\* leaf have the same length, and an internal node has level 1 exactly when
\* its children are leaves.
C5_EqualDepth ==
  halted = "no" =>
    /\ Cardinality(LeafDepths(rootPageNum, Len(pages))) <= 1
    /\ \A p \in {q \in Reachable : IsNonLeaf(q)} :
         (pages[p].level = 1) <=>
           (Children(p) # {} /\ \A c \in Children(p) : IsLeaf(c))

\* C5, its case: an insert that returned left a root of level 1, created
\* last, over at least two leaves, all at depth 1.
C5_Witness ==
  /\ halted = "no"
  /\ call.op = "insertEntry" /\ call.res = "ok"
  /\ IsNonLeaf(rootPageNum) /\ rootPageNum = Len(pages)
  /\ pages[rootPageNum].level = 1
  /\ Cardinality(Children(rootPageNum)) >= 2
  /\ LeafDepths(rootPageNum, Len(pages)) = {1}

\* C6 (occupancy): after every insert, the occupied count of every node is
\* between 0 and its capacity, and every node other than the root is at
\* least half full (occupied >= ceil(capacity / 2)).
C6_Occupancy ==
  halted = "no" =>
    \A p \in 1..Len(pages) :
      pages[p].kind \in {"leaf", "nonleaf"} =>
        /\ Occupied(p) \in 0..Capacity(p)
        /\ p # rootPageNum => 2 * Occupied(p) >= Capacity(p)

\* C7 (pin balance): after the build and after every insert that returned,
\* no page of the index file is left pinned, the meta page included.
C7_PinBalance ==
  (AllReturned /\ nScan = 0) =>
    \A p \in 1..Len(pinCnt) : pinCnt[p] = 0

\* A key within the bounds of a scan.
Qualifies(key, lowVal, lowOpParm, highVal, highOpParm) ==
  /\ IF lowOpParm = "GT" THEN key > lowVal ELSE key >= lowVal
  /\ IF highOpParm = "LT" THEN key < highVal ELSE key <= highVal

QualifyingKeys(c) ==
  {hist[i].key : i \in {n \in 1..Len(hist) :
      Qualifies(hist[n].key, c.lowVal, c.lowOp, c.highVal, c.highOp)}}

\* c is a startScan with valid operators, low <= high and a qualifying key.
ProperScan(c) ==
  /\ c.op = "startScan"
  /\ c.lowOp \in {"GT", "GTE"} /\ c.highOp \in {"LT", "LTE"}
  /\ c.lowVal <= c.highVal
  /\ QualifyingKeys(c) # {}

\* The rids of the entries with the smallest qualifying key.
FirstRids(c) ==
  {hist[i].rid : i \in {n \in 1..Len(hist) :
      /\ hist[n].key \in QualifyingKeys(c)
      /\ \A k \in QualifyingKeys(c) : hist[n].key <= k}}

\* C8 (scan result): a startScan with valid operators, low <= high and a
\* qualifying key begins a scan whose scanNext calls deliver exactly the
\* qualifying rids in ascending key order; so such a startScan returns
\* normally, and the scanNext that follows it returns normally and delivers
\* a rid of the smallest qualifying key.
C8_ScanResult ==
  [][AllReturned =>
       /\ ProperScan(call') => call'.res = "ok"
       /\ (ProperScan(call) /\ call.res = "ok" /\ call'.op = "scanNext") =>
            /\ call'.res = "ok"
            /\ Len(delivered') = 1
            /\ delivered'[1] \in FirstRids(call)]_vars

\* C9 (stability of duplicates): after every insert returned, inserted
\* entries with equal keys are met along the leaf chain in the order of
\* their insertion (rids are handed out in insertion order), also when a
\* leaf split happened in between.
C9_DuplicateStability ==
  AllReturned =>
    \A i, j \in 1..Len(ChainEntries) :
      (/\ i < j
       /\ ChainEntries[i] \in Range(Inserted)
       /\ ChainEntries[j] \in Range(Inserted)
       /\ ChainEntries[i].key = ChainEntries[j].key)
      => ChainEntries[i].rid < ChainEntries[j].rid

\* C10 (BadOpcodes first): startScan raises BadOpcodesException exactly when
\* the low operator is not GT or GTE or the high operator is not LT or LTE,
\* whatever the bounds are: the check comes before the range check, and with
\* valid operators BadOpcodesException is never raised.
C10_BadOpcodesFirst ==
  call.op = "startScan" =>
    (call.res = "BadOpcodesException"
       <=> (call.lowOp \notin {"GT", "GTE"} \/ call.highOp \notin {"LT", "LTE"}))

\* C10, its case: startScan(2, LTE, -2, GTE), wrong operators and low > high,
\* raised BadOpcodesException.
C10_Witness ==
  /\ call.op = "startScan"
  /\ call.lowOp = "LTE" /\ call.highOp = "GTE"
  /\ call.lowVal > call.highVal
  /\ call.res = "BadOpcodesException"

\* c is a startScan whose operators are a low and a high operator.
ValidOps(c) ==
  c.op = "startScan" /\ c.lowOp \in {"GT", "GTE"} /\ c.highOp \in {"LT", "LTE"}

\* C11 (BadScanrange): with valid operators startScan raises
\* BadScanrangeException exactly when the caller's low value is greater than
\* the caller's high value, and never when low <= high.
C11_BadScanrange ==
  ValidOps(call) =>
    (call.res = "BadScanrangeException" <=> call.lowVal > call.highVal)

\* C12 (NoSuchKeyFound): a startScan with valid operators and low <= high
\* raises NoSuchKeyFoundException and leaves no scan executing when no
\* inserted key qualifies; when one qualifies it returns with currentPageNum
\* and nextEntry on an entry with the smallest qualifying key.
C12_NoSuchKeyFound ==
  (AllReturned /\ ValidOps(call) /\ call.lowVal <= call.highVal) =>
    IF QualifyingKeys(call) = {}
    THEN call.res = "NoSuchKeyFoundException" /\ ~scanExecuting
    ELSE /\ call.res = "ok" /\ scanExecuting
         /\ {"nextEntry", "currentPageNum"} \cap indeterminate = {}
         /\ IsLeaf(currentPageNum)
         /\ nextEntry \in 0..(Occupied(currentPageNum) - 1)
         /\ pages[currentPageNum].ridArray[nextEntry] \in FirstRids(call)

\* C13 (scan lifecycle): while no scan is executing, scanNext and endScan
\* raise ScanNotInitializedException and no scan is executing afterwards;
\* endScan on an executing scan returns normally and leaves no scan
\* executing (so that a second endScan raises ScanNotInitializedException).
C13_ScanLifecycle ==
  [][/\ (call'.op \in {"scanNext", "endScan"} /\ ~scanExecuting) =>
          (call'.res = "ScanNotInitializedException" /\ ~scanExecuting')
     /\ (call'.op = "endScan" /\ scanExecuting) =>
          (call'.res = "ok" /\ ~scanExecuting')]_vars

\* C14 (scan completion): on an executing scan every scanNext either hands
\* out one more rid, at most as many as there are entries, or raises
\* IndexScanCompletedException; and once that was raised, the scanNext calls
\* that follow raise it again.
C14_ScanCompletion ==
  [][(call'.op = "scanNext" /\ scanExecuting) =>
       /\ \/ call'.res = "IndexScanCompletedException"
          \/ /\ call'.res = "ok"
             /\ Len(delivered') = Len(delivered) + 1
             /\ Len(delivered') <= Len(hist)
       /\ (call.op = "scanNext" /\ call.res = "IndexScanCompletedException")
            => call'.res = "IndexScanCompletedException"]_vars

\* C15 (insert never fails): every insertEntry returns normally, whatever
\* the tree and the key.
C15_InsertReturns ==
  /\ call.op = "insertEntry" => call.res = "ok"
  /\ \A i \in 1..Len(hist) : hist[i].res = "ok"


\* The meta page of the index file a constructor call named.
StoredMeta(c) ==
  disk[[rel |-> c.relationName, off |-> c.attrByteOffset]].pages[1]

\* C16 (open-close-open): a handle constructed on an existing index file,
\* with the values it was built with, works on the tree the file holds: its
\* root is the rootPageNo of the meta page, and it inserts into the root
\* directly only while the root is a leaf, so that scans and later inserts
\* see the tree that was left behind.
C16_RoundTrip ==
  (call.op = "BTreeIndex" /\ call.existed /\ call.res = "ok"
     /\ handle = "open") =>
    /\ rootPageNum = pages[1].rootPageNo
    /\ insertInRoot <=> IsLeaf(pages[1].rootPageNo)

\* C17 (meta validation): a constructor call that names an existing index
\* file returns normally when relation name, attribute offset and attribute
\* type all equal the values in the file's meta page, and raises
\* BadIndexInfoException when one of them differs.
C17_MetaValidation ==
  (call.op = "BTreeIndex" /\ call.existed) =>
    IF /\ call.relationName = StoredMeta(call).relationName
       /\ call.attrByteOffset = StoredMeta(call).attrByteOffset
       /\ call.attrType = StoredMeta(call).attrType
    THEN call.res = "ok"
    ELSE call.res = "BadIndexInfoException"

\* C18 (attribute type): a constructor call with an attribute type other
\* than INTEGER raises BadIndexInfoException; it does not return normally
\* and leaves no handle behind.
C18_IntegerOnly ==
  (call.op = "BTreeIndex" /\ call.attrType # "INTEGER") =>
    (call.res = "BadIndexInfoException" /\ handle = "destroyed")

\* The errors the public operations raise by contract.
ContractErrors ==
  {"BadIndexInfoException", "BadOpcodesException", "BadScanrangeException",
   "NoSuchKeyFoundException", "ScanNotInitializedException",
   "IndexScanCompletedException"}

\* C19 (errors leave the index consistent): a call that raises one of the
\* contract errors holds no pin it did not hold before (a constructor call
\* that raises holds none at all) and leaves every page as it was.
C19_ErrorsLeaveNoPins ==
  [][call'.res \in ContractErrors =>
       IF call'.op = "BTreeIndex"
       THEN \A p \in 1..Len(pinCnt') : pinCnt'[p] = 0
       ELSE pinCnt' = pinCnt /\ pages' = pages]_vars

\* C20 (destructor): destroying a handle returns normally in every state:
\* with no scan, with a scan executing or completed, after inserts that
\* split leaves or created a root; no exception leaves the destructor.
C20_DestructorNoThrow ==
  call.op = "destroy" => (call.res = "ok" /\ halted = "no")

\* The child the descent rule picks at internal node p for key K: children[i]
\* for the smallest i with K < keys[i], children[k] when there is none.
ChildFor(p, K) ==
  IF \E i \in 0..(Occupied(p) - 1) : K < pages[p].keyArray[i]
  THEN pages[p].pageNoArray[
         CHOOSE i \in 0..(Occupied(p) - 1) :
           /\ K < pages[p].keyArray[i]
           /\ \A j \in 0..(i - 1) : ~(K < pages[p].keyArray[j])]
  ELSE pages[p].pageNoArray[Occupied(p)]

\* The page the rule arrives at from p: the child picked at a node of level 1.
RECURSIVE DescentFrom(_, _, _)
DescentFrom(p, K, fuel) ==
  IF ~IsNonLeaf(p) \/ fuel = 0 THEN INVALID_NUMBER
  ELSE IF pages[p].level = 1 THEN ChildFor(p, K)
  ELSE DescentFrom(ChildFor(p, K), K, fuel - 1)

\* C21 (descent): in a tree of height >= 2, for every key K, searchNode from
\* the root returns a leaf: the page reached by following, at every level,
\* children[i] for the smallest i with K < keys[i], or the last child when K
\* is >= every separator (a key equal to a separator goes right).
C21_Descent ==
  (halted = "no" /\ handle = "open" /\ IsNonLeaf(rootPageNum)) =>
    \A K \in Keys :
      /\ searchNode(Machine, K, rootPageNum).set
      /\ searchNode(Machine, K, rootPageNum).pid
           = DescentFrom(rootPageNum, K, Len(pages))
      /\ IsLeaf(searchNode(Machine, K, rootPageNum).pid)

\* C22 (descent is read-only): in a tree of height >= 2, for every key K,
\* searchNode from the root leaves the contents of every page as they were,
\* and holds no pin and has set no dirty bit when it returns.
C22_DescentReadOnly ==
  (halted = "no" /\ handle = "open" /\ IsNonLeaf(rootPageNum)) =>
    \A K \in Keys :
      /\ searchNode(Machine, K, rootPageNum).m.pages = pages
      /\ searchNode(Machine, K, rootPageNum).m.pinCnt = pinCnt
      /\ searchNode(Machine, K, rootPageNum).m.dirty = dirty

\* The valid (key, rid) pairs of the leaf record node.
PairsOf(node) ==
  {[key |-> node.keyArray[i], rid |-> node.ridArray[i]] :
     i \in 0..(INTARRAYLEAFSIZE - node.spaceAvail - 1)}

\* The valid separators of the internal node record node.
SeparatorsOf(node) ==
  {node.keyArray[i] : i \in 0..(INTARRAYNONLEAFSIZE - node.spaceAvail - 1)}

\* The step is an insertEntry call.
InsertStep == call'.op = "insertEntry" /\ Len(hist') = Len(hist) + 1

\* C23 (first split): an insertEntry into a tree that is one full (sorted)
\* leaf returns normally and allocates a right sibling and then a root with
\* one separator, level 1 and children [old leaf, new leaf]; the separator is
\* the first key of the new leaf; the old leaf keeps the L/2 smallest of the
\* L + 1 entries and the new leaf holds the others.
C23_FirstSplit ==
  [][(/\ InsertStep
      /\ handle = "open" /\ insertInRoot /\ IsLeaf(rootPageNum)
      /\ pages[rootPageNum].spaceAvail = 0
      /\ \A i \in 1..(INTARRAYLEAFSIZE - 1) :
           pages[rootPageNum].keyArray[i - 1] <= pages[rootPageNum].keyArray[i])
     =>
     /\ call'.res = "ok"
     /\ Len(pages') = Len(pages) + 2
     /\ pages'[Len(pages) + 1].kind = "leaf"
     /\ pages'[Len(pages) + 2].kind = "nonleaf"
     /\ rootPageNum' = Len(pages) + 2
     /\ pages'[rootPageNum'].spaceAvail = INTARRAYNONLEAFSIZE - 1
     /\ pages'[rootPageNum'].level = 1
     /\ pages'[rootPageNum'].pageNoArray[0] = rootPageNum
     /\ pages'[rootPageNum'].pageNoArray[1] = Len(pages) + 1
     /\ pages'[rootPageNum'].keyArray[0] = pages'[Len(pages) + 1].keyArray[0]
     /\ INTARRAYLEAFSIZE - pages'[rootPageNum].spaceAvail
          = INTARRAYLEAFSIZE \div 2
     /\ INTARRAYLEAFSIZE - pages'[Len(pages) + 1].spaceAvail
          = INTARRAYLEAFSIZE + 1 - INTARRAYLEAFSIZE \div 2
     /\ \A a \in PairsOf(pages'[rootPageNum]) :
          \A b \in PairsOf(pages'[Len(pages) + 1]) : a.key <= b.key
     /\ PairsOf(pages'[rootPageNum]) \cup PairsOf(pages'[Len(pages) + 1])
          = PairsOf(pages[rootPageNum])
              \cup {[key |-> call'.key, rid |-> hist'[Len(hist')].rid]}]_vars

\* C24 (separator into a parent with space): when an insertEntry splits a
\* leaf C into C and R under a parent with space, the parent has one more
\* separator and child afterwards: the first key of R stands at its sorted
\* position p, R at children[p + 1], the separators and children behind are
\* shifted right by one, those before, C included, stay.
C24_ParentInstall ==
  [][(/\ InsertStep /\ call'.res = "ok"
      /\ handle = "open" /\ IsNonLeaf(rootPageNum)
      /\ pages[rootPageNum].spaceAvail > 0
      /\ Len(pages') = Len(pages) + 1
      /\ pages'[Len(pages')].kind = "leaf")
     =>
     /\ pages'[rootPageNum].spaceAvail = pages[rootPageNum].spaceAvail - 1
     /\ \E p \in 0..Occupied(rootPageNum) :
          /\ pages'[rootPageNum].keyArray[p] = pages'[Len(pages')].keyArray[0]
          /\ pages'[rootPageNum].pageNoArray[p + 1] = Len(pages')
          /\ pages'[pages'[rootPageNum].pageNoArray[p]].rightSibPageNo
               = Len(pages')
          /\ \A i \in 0..(p - 1) :
               pages'[rootPageNum].keyArray[i] = pages[rootPageNum].keyArray[i]
          /\ \A i \in 0..p :
               pages'[rootPageNum].pageNoArray[i]
                 = pages[rootPageNum].pageNoArray[i]
          /\ \A i \in p..(Occupied(rootPageNum) - 1) :
               /\ pages'[rootPageNum].keyArray[i + 1]
                    = pages[rootPageNum].keyArray[i]
               /\ pages'[rootPageNum].pageNoArray[i + 2]
                    = pages[rootPageNum].pageNoArray[i + 1]]_vars

\* C25 (internal split): when an insertEntry splits a leaf under a full
\* internal node P (the root), the call returns normally with a new sibling
\* P' of P's level and a new root above both; with mid = N / 2, P keeps mid
\* separators, P' holds N - mid, the separator at mid is the root's, and the
\* three together are the N separators P had plus the leaf's promoted key.
C25_InternalSplit ==
  [][(/\ InsertStep
      /\ handle = "open" /\ IsNonLeaf(rootPageNum)
      /\ pages[rootPageNum].spaceAvail = 0
      /\ Len(pages') > Len(pages)
      /\ pages'[Len(pages) + 1].kind = "leaf")
     =>
     /\ call'.res = "ok"
     /\ Len(pages') = Len(pages) + 3
     /\ pages'[Len(pages) + 2].kind = "nonleaf"
     /\ pages'[Len(pages) + 3].kind = "nonleaf"
     /\ rootPageNum' = Len(pages) + 3
     /\ pages'[Len(pages) + 2].level = pages[rootPageNum].level
     /\ INTARRAYNONLEAFSIZE - pages'[rootPageNum].spaceAvail
          = INTARRAYNONLEAFSIZE \div 2
     /\ INTARRAYNONLEAFSIZE - pages'[Len(pages) + 2].spaceAvail
          = INTARRAYNONLEAFSIZE - INTARRAYNONLEAFSIZE \div 2
     /\ pages'[rootPageNum'].spaceAvail = INTARRAYNONLEAFSIZE - 1
     /\ pages'[rootPageNum'].pageNoArray[0] = rootPageNum
     /\ pages'[rootPageNum'].pageNoArray[1] = Len(pages) + 2
     /\ \A a \in SeparatorsOf(pages'[rootPageNum]) :
          a <= pages'[rootPageNum'].keyArray[0]
     /\ \A b \in SeparatorsOf(pages'[Len(pages) + 2]) :
          pages'[rootPageNum'].keyArray[0] <= b
     /\ SeparatorsOf(pages'[rootPageNum])
          \cup SeparatorsOf(pages'[Len(pages) + 2])
          \cup {pages'[rootPageNum'].keyArray[0]}
          = SeparatorsOf(pages[rootPageNum])
              \cup {pages'[Len(pages) + 1].keyArray[0]}]_vars

\* The node pages of the index file.
Nodes == {p \in 1..Len(pages) : pages[p].kind \in {"leaf", "nonleaf"}}

\* C26 (cascading propagation): no insert fails and no split drops its new
\* sibling: every node of the file is reachable from the root, and so is
\* every inserted entry.
C26_Cascade ==
  (halted = "no" /\ handle = "open") =>
    /\ \A i \in 1..Len(hist) : hist[i].res = "ok"
    /\ Nodes \subseteq Reachable
    /\ \A i \in 1..Len(hist) :
         \E p \in {q \in Reachable : IsLeaf(q)} :
           [key |-> hist[i].key, rid |-> hist[i].rid] \in PairsOf(pages[p])

\* C27 (restarting a scan): a startScan with valid operators and low <= high
\* on a handle whose scan is executing returns normally, and the scan that
\* executes afterwards has the operators and bounds of this call.
C27_RestartScan ==
  [][(/\ scanExecuting /\ handle = "open"
      /\ ValidOps(call') /\ call'.lowVal <= call'.highVal
      /\ nScan' = nScan + 1)
     =>
     /\ call'.res = "ok"
     /\ scanExecuting'
     /\ lowOp' = call'.lowOp /\ highOp' = call'.highOp
     /\ lowValInt' = call'.lowVal /\ highValInt' = call'.highVal]_vars

\* C28 (root bookkeeping): on every handle, built or opened on an existing
\* file, insertInRoot holds exactly while the root is a leaf, rootPageNum is
\* the rootPageNo of the meta page, and the root is the one node that is no
\* node's child.
C28_RootInvariant ==
  (halted = "no" /\ handle = "open") =>
    /\ insertInRoot <=> IsLeaf(rootPageNum)
    /\ rootPageNum = pages[1].rootPageNo
    /\ {p \in Nodes : \A q \in Nodes : IsNonLeaf(q) => p \notin Children(q)}
         = {rootPageNum}

====
